---- MODULE Spec2Model ----
(***************************************************************************)
(* Model of app/handler/response_handler.py: the translation of a provider *)
(* response (candidates / content / parts) into the chat-completion format *)
(* (OpenAIResponseHandler) or back into the provider format                *)
(* (GeminiResponseHandler).                                                *)
(*                                                                         *)
(* Python values are modelled as follows.                                  *)
(*   dict   a TLA+ record / function whose DOMAIN is the set of keys that  *)
(*          are present; the empty dict is << >>.                          *)
(*   list   a sequence (1-based here, 0-based in the source).              *)
(*   str    a sequence of one-character strings; a fixed literal of the    *)
(*          source (a markdown header, a fence) is one token "<...>".      *)
(*   None   for the optional thought and usage_metadata: [some |-> FALSE]; *)
(*          a present value v is [some |-> TRUE, val |-> v].               *)
(*   raise  a function that can raise returns [raised |-> TRUE, exc |-> e] *)
(*          instead of its value.                                          *)
(***************************************************************************)
EXTENDS Integers, Sequences, FiniteSets, TLC

\* Longest fragment sequence (content.parts) of an input response.
MaxParts == 2
\* Number of calls in flight at once on the shared handler (SpecConc).
NumCalls == 2

None == [some |-> FALSE]
Some(v) == [some |-> TRUE, val |-> v]
EmptyDict == << >>

Raise(e) == [raised |-> TRUE, exc |-> e]

\* dict.get(key, default)
Get(d, key, default) == IF key \in DOMAIN d THEN d[key] ELSE default

\* Python truthiness of a str, list or dict: empty is false.
Truthy(v) == v # << >>

(***************************************************************************)
(* String helpers: str.lower() and str.strip().                            *)
(***************************************************************************)
LowerChar(c) ==
    CASE c = "P" -> "p"
      [] c = "Y" -> "y"
      [] OTHER -> c

Lower(s) == [i \in 1..Len(s) |-> LowerChar(s[i])]

IsSpace(c) == c \in {" ", "\n", "\t"}

RECURSIVE LStrip(_)
LStrip(s) == IF s # << >> /\ IsSpace(Head(s)) THEN LStrip(Tail(s)) ELSE s

RECURSIVE RStrip(_)
RStrip(s) ==
    IF s # << >> /\ IsSpace(s[Len(s)]) THEN RStrip(SubSeq(s, 1, Len(s) - 1)) ELSE s

Strip(s) == RStrip(LStrip(s))

\* parts[start_index:] with a 0-based start_index.
Slice(parts, start_index) == SubSeq(parts, start_index + 1, Len(parts))

\* "thinking" in model
ContainsThinking(model) == \E i \in 1..Len(model) : model[i] = "thinking"

\* model.endswith("-search")
EndsWithSearch(model) == Len(model) >= 2 /\ model[Len(model)] = "search"

(***************************************************************************)
(* Formatting of the non-text fragments.                                   *)
(***************************************************************************)
_format_code_block(code_data) ==
    LET language == Lower(Get(code_data, "language", << >>))
        code == Strip(Get(code_data, "code", << >>))
    IN  <<"<code-header>">> \o language \o <<"\n">> \o code \o <<"<code-footer>">>

_format_execution_result(result_data) ==
    LET outcome == Get(result_data, "outcome", << >>)
        output == Strip(Get(result_data, "output", << >>))
    IN  <<"<result-header>">> \o outcome \o <<"<output-header>">> \o output
            \o <<"<result-footer>">>

_create_search_link(grounding_chunk) ==
    <<"\n- [">> \o grounding_chunk["title"] \o <<"](">> \o grounding_chunk["uri"]
        \o <<")">>

RECURSIVE SearchLinks(_)
SearchLinks(grounding_chunks) ==
    IF grounding_chunks = << >> THEN << >>
    ELSE (IF "web" \in DOMAIN Head(grounding_chunks)
          THEN _create_search_link(Head(grounding_chunks)["web"])
          ELSE << >>) \o SearchLinks(Tail(grounding_chunks))

\* Mutant: the SHOW_SEARCH_LINK flag is not consulted.
_add_search_link_text_NoFlag(settings, model, candidate, text) ==
    IF /\ EndsWithSearch(model)
       /\ "groundingMetadata" \in DOMAIN candidate
       /\ "groundingChunks" \in DOMAIN candidate["groundingMetadata"]
    THEN text \o <<"<sources-separator>", "<sources-header>">>
              \o SearchLinks(candidate["groundingMetadata"]["groundingChunks"])
    ELSE text

_add_search_link_text(settings, model, candidate, text) ==
    IF /\ settings.SHOW_SEARCH_LINK
       /\ EndsWithSearch(model)
       /\ "groundingMetadata" \in DOMAIN candidate
       /\ "groundingChunks" \in DOMAIN candidate["groundingMetadata"]
    THEN text \o <<"<sources-separator>", "<sources-header>">>
              \o SearchLinks(candidate["groundingMetadata"]["groundingChunks"])
    ELSE text

(***************************************************************************)
(* Inline media.  base64.b64decode is modelled on the payloads the model   *)
(* uses: "QQ==" decodes to the byte "A", "QQ" has incorrect padding and    *)
(* raises binascii.Error.  The uploader is an external collaborator: env   *)
(* .upload is what it does when asked ("ok", "fail": success = False,      *)
(* "raise": the upload call raises).                                       *)
(***************************************************************************)
UploadProviders == {"smms", "picgo", "cloudflare_imgbed"}

b64decode(data) ==
    CASE data = <<"Q", "Q", "=", "=">> -> [raised |-> FALSE, bytes |-> <<"A">>]
      [] data = << >> -> [raised |-> FALSE, bytes |-> << >>]
      [] OTHER -> Raise("binascii.Error")

_extract_image_data(settings, part, env) ==
    LET image_uploader == IF settings.UPLOAD_PROVIDER \in UploadProviders
                          THEN Some(settings.UPLOAD_PROVIDER) ELSE None
        decoded == b64decode(part["inlineData"]["data"])
    IN  IF decoded.raised THEN decoded
        ELSE IF ~image_uploader.some THEN Raise("AttributeError")
        ELSE IF env.upload = "raise" THEN Raise("UploadError")
        ELSE IF env.upload = "ok"
             THEN [raised |-> FALSE,
                   text |-> <<"<image-open>">> \o env.url \o <<"<image-close>">>]
             ELSE [raised |-> FALSE, text |-> << >>]

(***************************************************************************)
(* Tool calls.                                                             *)
(***************************************************************************)
\* json.dumps of the argument maps the model uses.
json_dumps(args) ==
    IF args = EmptyDict THEN <<"{", "}">>
    ELSE <<"{">> \o <<"\"q\": ">> \o <<"\"">> \o args["q"] \o <<"\"", "}">>

\* f"call_{''.join(random.sample(letters, 32))}"
ToolCallId(env) == <<"call_", env.rnd>>

\* item.get("args", None) or {}
ArgsOrEmpty(item) ==
    LET a == Get(item, "args", None) IN IF a = None \/ ~Truthy(a) THEN EmptyDict ELSE a

\* Mutant: the index counts from one.
ToolCallOf_OneBased(parts, i, gemini_format, env) ==
    LET part == parts[i]
        item == Get(part, "functionCall", EmptyDict)
    IN  IF ~Truthy(part) THEN << >>
        ELSE IF ~Truthy(item) THEN << >>
        ELSE IF gemini_format THEN <<part>>
        ELSE << [index |-> i,
                 id |-> ToolCallId(env),
                 type |-> "function",
                 function |-> [name |-> Get(item, "name", << >>),
                               arguments |-> json_dumps(ArgsOrEmpty(item))]] >>

\* One iteration of the loop of _extract_tool_calls, for 1-based position i.
ToolCallOf(parts, i, gemini_format, env) ==
    LET part == parts[i]
        item == Get(part, "functionCall", EmptyDict)
    IN  IF ~Truthy(part) THEN << >>
        ELSE IF ~Truthy(item) THEN << >>
        ELSE IF gemini_format THEN <<part>>
        ELSE << [index |-> i - 1,
                 id |-> ToolCallId(env),
                 type |-> "function",
                 function |-> [name |-> Get(item, "name", << >>),
                               arguments |-> json_dumps(ArgsOrEmpty(item))]] >>

RECURSIVE ToolCallLoop(_, _, _, _)
ToolCallLoop(parts, i, gemini_format, env) ==
    IF i > Len(parts) THEN << >>
    ELSE ToolCallOf(parts, i, gemini_format, env)
             \o ToolCallLoop(parts, i + 1, gemini_format, env)

_extract_tool_calls(parts, gemini_format, env) ==
    IF ~Truthy(parts) THEN << >> ELSE ToolCallLoop(parts, 1, gemini_format, env)

(***************************************************************************)
(* _extract_result.                                                        *)
(***************************************************************************)
\* response.get("candidates"): the key is present and the list is not empty.
HasCandidates(response) == Truthy(Get(response, "candidates", << >>))

\* candidate.get("content", {}).get("parts", [])
PartsOf(candidate) == Get(Get(candidate, "content", EmptyDict), "parts", << >>)

\* parts[0].get("thought") or ("thinking" in model and len(parts) >= 2);
\* evaluated only for a non-empty parts.
ThinkingDetected(parts, model) ==
    \/ Get(parts[1], "thought", FALSE)
    \/ (ContainsThinking(model) /\ Len(parts) >= 2)

\* Mutant: the thought is exposed whatever SHOW_THINKING_PROCESS says.
ThoughtOf_IgnoresFlag(settings, parts, model) ==
    IF ThinkingDetected(parts, model)
    THEN Some(Get(parts[1], "text", << >>))
    ELSE None

\* thought and start_index after the thinking detection.
ThoughtOf(settings, parts, model) ==
    IF ThinkingDetected(parts, model) /\ settings.SHOW_THINKING_PROCESS
    THEN Some(Get(parts[1], "text", << >>))
    ELSE None

StartIndex(parts, model) == IF ThinkingDetected(parts, model) THEN 1 ELSE 0

\* The if/elif chain of the streaming branch for current_part.
StreamPartText(settings, current_part, env) ==
    IF "text" \in DOMAIN current_part
        THEN [raised |-> FALSE, text |-> current_part["text"]]
    ELSE IF "executableCode" \in DOMAIN current_part
        THEN [raised |-> FALSE,
              text |-> _format_code_block(current_part["executableCode"])]
    ELSE IF "codeExecution" \in DOMAIN current_part
        THEN [raised |-> FALSE,
              text |-> _format_code_block(current_part["codeExecution"])]
    ELSE IF "executableCodeResult" \in DOMAIN current_part
        THEN [raised |-> FALSE,
              text |-> _format_execution_result(current_part["executableCodeResult"])]
    ELSE IF "codeExecutionResult" \in DOMAIN current_part
        THEN [raised |-> FALSE,
              text |-> _format_execution_result(current_part["codeExecutionResult"])]
    ELSE IF "inlineData" \in DOMAIN current_part
        THEN _extract_image_data(settings, current_part, env)
    ELSE [raised |-> FALSE, text |-> << >>]

\* The if/elif chain of the body of the non-streaming loop for part.
NormalPartText(settings, part, env) ==
    IF "text" \in DOMAIN part
        THEN [raised |-> FALSE, text |-> Get(part, "text", << >>)]
    ELSE IF "inlineData" \in DOMAIN part
        THEN _extract_image_data(settings, part, env)
    ELSE IF "executableCode" \in DOMAIN part
        THEN [raised |-> FALSE, text |-> _format_code_block(part["executableCode"])]
    ELSE IF "codeExecution" \in DOMAIN part
        THEN [raised |-> FALSE, text |-> _format_code_block(part["codeExecution"])]
    ELSE IF "executableCodeResult" \in DOMAIN part
        THEN [raised |-> FALSE,
              text |-> _format_execution_result(part["executableCodeResult"])]
    ELSE IF "codeExecutionResult" \in DOMAIN part
        THEN [raised |-> FALSE,
              text |-> _format_execution_result(part["codeExecutionResult"])]
    ELSE [raised |-> FALSE, text |-> << >>]

\* for part in parts[start_index:]: text += ...; an exception leaves the loop.
RECURSIVE NormalLoop(_, _, _, _)
NormalLoop(settings, parts, text, env) ==
    IF parts = << >> THEN [raised |-> FALSE, text |-> text]
    ELSE LET r == NormalPartText(settings, Head(parts), env)
         IN  IF r.raised THEN r
             ELSE NormalLoop(settings, Tail(parts), text \o r.text, env)

Triple(text, tool_calls, thought) ==
    [raised |-> FALSE, text |-> text, tool_calls |-> tool_calls, thought |-> thought]

ExtractStream(settings, response, model, gemini_format, env) ==
    IF HasCandidates(response)
    THEN LET candidate == response["candidates"][1]
             parts == PartsOf(candidate)
         IN  IF ~Truthy(parts) THEN Triple(<< >>, << >>, None)
             ELSE LET start_index == StartIndex(parts, model)
                      thought == ThoughtOf(settings, parts, model)
                      current_part == IF Len(parts) > start_index
                                      THEN parts[start_index + 1] ELSE EmptyDict
                      r == StreamPartText(settings, current_part, env)
                  IN  IF r.raised THEN r
                      ELSE Triple(
                             _add_search_link_text(settings, model, candidate, r.text),
                             _extract_tool_calls(Slice(parts, start_index),
                                                 gemini_format, env),
                             thought)
    ELSE Triple(<< >>, << >>, None)

ExtractNormal(settings, response, model, gemini_format, env) ==
    IF HasCandidates(response)
    THEN LET candidate == response["candidates"][1]
             parts == PartsOf(candidate)
             detected == Truthy(parts) /\ ThinkingDetected(parts, model)
             start_index == IF detected THEN 1 ELSE 0
             thought == IF detected THEN ThoughtOf(settings, parts, model) ELSE None
             r == NormalLoop(settings, Slice(parts, start_index), << >>, env)
         IN  IF r.raised THEN r
             ELSE Triple(
                    _add_search_link_text(settings, model, candidate, r.text),
                    _extract_tool_calls(Slice(parts, start_index), gemini_format, env),
                    thought)
    ELSE Triple(<<"<no-response>">>, << >>, None)

_extract_result(settings, response, model, stream, gemini_format, env) ==
    IF stream THEN ExtractStream(settings, response, model, gemini_format, env)
    ELSE ExtractNormal(settings, response, model, gemini_format, env)

(***************************************************************************)
(* Target-format (chat completion) builders.  The envelope fields id (a    *)
(* fresh uuid4) and created (the clock) are values of the environment that *)
(* no other field depends on; the envelopes below carry the other fields.  *)
(***************************************************************************)
\* The usage block built from a usage_metadata dict.
UsageBlock(usage_metadata) ==
    [prompt_tokens |-> Get(usage_metadata, "promptTokenCount", 0),
     completion_tokens |-> Get(usage_metadata, "candidatesTokenCount", 0),
     total_tokens |-> Get(usage_metadata, "totalTokenCount", 0)]

\* record r with key k set to v (a dict assignment d[k] = v).
SetKey(r, k, v) == [x \in DOMAIN r \cup {k} |-> IF x = k THEN v ELSE r[x]]

\* Mutant: tool_calls is set on every non-empty delta.
StreamDelta_AlwaysToolCalls(text, tool_calls) ==
    IF ~Truthy(text) /\ ~Truthy(tool_calls) THEN EmptyDict
    ELSE [content |-> text, role |-> "assistant", tool_calls |-> tool_calls]

\* delta of the streaming chunk.
StreamDelta(text, tool_calls) ==
    IF ~Truthy(text) /\ ~Truthy(tool_calls) THEN EmptyDict
    ELSE LET delta == [content |-> text, role |-> "assistant"]
         IN  IF Truthy(tool_calls) THEN SetKey(delta, "tool_calls", tool_calls)
             ELSE delta

\* if usage_metadata: template_chunk["usage"] = ...
StreamUsage(template_chunk, usage_metadata) ==
    IF usage_metadata.some /\ Truthy(usage_metadata.val)
    THEN SetKey(template_chunk, "usage", UsageBlock(usage_metadata.val))
    ELSE template_chunk

_handle_openai_stream_response(settings, response, model, finish_reason, usage_metadata, env) ==
    LET r == _extract_result(settings, response, model, TRUE, FALSE, env)
    IN  IF r.raised THEN r
        ELSE LET template_chunk ==
                     [object |-> "chat.completion.chunk",
                      model |-> model,
                      choices |-> << [index |-> 0,
                                      delta |-> StreamDelta(r.text, r.tool_calls),
                                      finish_reason |-> finish_reason] >>]
             IN  [raised |-> FALSE,
                  value |-> StreamUsage(template_chunk, usage_metadata)]

\* if thought: response_data["thought"] = thought
NormalThought(response_data, thought) ==
    IF thought.some /\ Truthy(thought.val)
    THEN SetKey(response_data, "thought", thought.val)
    ELSE response_data

\* The "usage" entry of the full message: usage_metadata.get(...) on None raises.
NormalUsage(usage_metadata) ==
    IF ~usage_metadata.some THEN Raise("AttributeError")
    ELSE [raised |-> FALSE, value |-> UsageBlock(usage_metadata.val)]

_handle_openai_normal_response(settings, response, model, finish_reason, usage_metadata, env) ==
    LET r == _extract_result(settings, response, model, FALSE, FALSE, env)
        usage == NormalUsage(usage_metadata)
    IN  IF r.raised THEN r
        ELSE IF usage.raised THEN usage
        ELSE LET response_data ==
                     [object |-> "chat.completion",
                      model |-> model,
                      choices |-> << [index |-> 0,
                                      message |-> [role |-> "assistant",
                                                   content |-> r.text,
                                                   tool_calls |-> r.tool_calls],
                                      finish_reason |-> finish_reason] >>,
                      usage |-> usage.value]
             IN  [raised |-> FALSE, value |-> NormalThought(response_data, r.thought)]

OpenAIResponseHandler_handle_response(settings, response, model, stream, finish_reason, usage_metadata, env) ==
    IF stream
    THEN _handle_openai_stream_response(settings, response, model, finish_reason,
                                        usage_metadata, env)
    ELSE _handle_openai_normal_response(settings, response, model, finish_reason,
                                        usage_metadata, env)

(***************************************************************************)
(* Native-format builders.                                                 *)
(***************************************************************************)
\* response["candidates"][0]["content"] = content; return response
SetContent(response, content) ==
    IF "candidates" \notin DOMAIN response THEN Raise("KeyError")
    ELSE IF response["candidates"] = << >> THEN Raise("IndexError")
    ELSE [raised |-> FALSE,
          value |-> SetKey(response, "candidates",
                           [response["candidates"] EXCEPT
                                ![1] = SetKey(@, "content", content)])]

StreamContent(text, tool_calls) ==
    IF Truthy(tool_calls) THEN [parts |-> tool_calls, role |-> "model"]
    ELSE [parts |-> << [text |-> text] >>, role |-> "model"]

\* Mutant: the thought is looked at before the tool calls.
NormalContent_ThoughtFirst(text, tool_calls, thought) ==
    IF thought.some
    THEN [parts |-> << [text |-> thought.val, thought |-> TRUE], [text |-> text] >>,
          role |-> "model"]
    ELSE IF Truthy(tool_calls) THEN [parts |-> tool_calls, role |-> "model"]
    ELSE [parts |-> << [text |-> text] >>, role |-> "model"]

NormalContent(text, tool_calls, thought) ==
    IF Truthy(tool_calls) THEN [parts |-> tool_calls, role |-> "model"]
    ELSE IF thought.some
         THEN [parts |-> << [text |-> thought.val, thought |-> TRUE],
                            [text |-> text] >>,
               role |-> "model"]
    ELSE [parts |-> << [text |-> text] >>, role |-> "model"]

_handle_gemini_stream_response(settings, response, model, stream, env) ==
    LET r == _extract_result(settings, response, model, stream, TRUE, env)
    IN  IF r.raised THEN r
        ELSE SetContent(response, StreamContent(r.text, r.tool_calls))

_handle_gemini_normal_response(settings, response, model, stream, env) ==
    LET r == _extract_result(settings, response, model, stream, TRUE, env)
    IN  IF r.raised THEN r
        ELSE SetContent(response, NormalContent(r.text, r.tool_calls, r.thought))

GeminiResponseHandler_handle_response(settings, response, model, stream, env) ==
    IF stream THEN _handle_gemini_stream_response(settings, response, model, stream, env)
    ELSE _handle_gemini_normal_response(settings, response, model, stream, env)

\* Mutant: a call records on the handler that the first chunk has been seen.
HandlerAfterCall_FirstSeen(self) == [self EXCEPT !.thinking_first = FALSE]

\* The fields of a handler object after one handle_response call on it: neither
\* handle_response method assigns to self.
HandlerAfterCall(self) == self

\* GeminiResponseHandler.__init__ / OpenAIResponseHandler.__init__
NewHandler == [thinking_first |-> TRUE, thinking_status |-> FALSE]

(***************************************************************************)
(* Inputs.                                                                 *)
(***************************************************************************)
FragText == [text |-> <<"h", "i">>]
FragThought == [text |-> <<"r">>, thought |-> TRUE]
FragImage == [inlineData |-> [mimeType |-> "image/png", data |-> <<"Q", "Q", "=", "=">>]]
FragBadImage == [inlineData |-> [mimeType |-> "image/png", data |-> <<"Q", "Q">>]]
FragCode == [executableCode |-> [language |-> <<"P", "Y">>, code |-> <<" ", "x", "\n">>]]
FragResult == [codeExecutionResult |-> [outcome |-> <<"OK">>, output |-> <<"1", " ">>]]
FragCall == [functionCall |-> [name |-> <<"lookup">>, args |-> [q |-> <<"x">>]]]
FragCallEmpty == [functionCall |-> EmptyDict]
FragImageCode ==
    [inlineData |-> [mimeType |-> "image/png", data |-> <<"Q", "Q", "=", "=">>],
     executableCode |-> [language |-> <<"P", "Y">>, code |-> <<"z">>]]

Fragments ==
    {FragText, FragThought, FragImage, FragBadImage, FragCode, FragResult,
     FragCall, FragCallEmpty, FragImageCode, EmptyDict}

PartsLists == UNION {[1..n -> Fragments] : n \in 0..MaxParts}

Grounding ==
    [groundingChunks |-> << [web |-> [title |-> <<"Doc">>, uri |-> <<"http://x">>]],
                            [retrievedContext |-> EmptyDict] >>]

Candidates ==
    {[content |-> [parts |-> ps, role |-> "model"]] : ps \in PartsLists}
    \cup {[content |-> [parts |-> ps, role |-> "model"], groundingMetadata |-> Grounding]
             : ps \in PartsLists}
    \cup {EmptyDict,
          [content |-> [role |-> "model"]],
          [groundingMetadata |-> Grounding],
          [content |-> [parts |-> <<FragText>>, role |-> "model"],
           groundingMetadata |-> [webSearchQueries |-> << >>]]}

Responses ==
    {EmptyDict, [candidates |-> << >>]} \cup {[candidates |-> <<c>>] : c \in Candidates}

Models ==
    {<<"gemini", "pro">>, <<"gemini", "thinking", "exp">>, <<"gemini", "pro", "search">>}

UsageMetadatas ==
    {None, Some(EmptyDict), Some([promptTokenCount |-> 3, totalTokenCount |-> 5])}

RandomTokens == {"r1", "r2"}

Settings ==
    [SHOW_THINKING_PROCESS : BOOLEAN,
     SHOW_SEARCH_LINK : BOOLEAN,
     UPLOAD_PROVIDER : {"smms", "none"}]

Uploads == {"ok", "fail", "raise"}

AllEnvs == [upload : Uploads, url : {<<"u">>}, rnd : RandomTokens]

\* The environments a call can observe, outcome[x] being what the call does in
\* environment x: the uploader answers only a call that asks it, and a random
\* token exists only in a call that draws one.
EnvsOf(outcome) ==
    LET base == [upload |-> "ok", url |-> <<"u">>, rnd |-> "r1"]
        asked == \E u \in Uploads : outcome[[base EXCEPT !.upload = u]] # outcome[base]
        drawn == \E t \in RandomTokens : outcome[[base EXCEPT !.rnd = t]] # outcome[base]
    IN  [upload : IF asked THEN Uploads ELSE {"unasked"},
         url : {<<"u">>},
         rnd : IF drawn THEN RandomTokens ELSE {"unused"}]

(***************************************************************************)
(* State.                                                                  *)
(***************************************************************************)
VARIABLES
    settings,   \* app.config.config.settings, read-only while the program runs
    handlers,   \* the fields of the shared handler objects, by class
    pc,         \* "idle", "returned", "reextracted"
    call,       \* the arguments of the last handle_response call
    triple,     \* what _extract_result returned inside that call
    result,     \* what the call returned, or the exception it raised
    again,      \* _extract_result on the returned native-format response
    calls       \* SpecConc: the calls in flight, by caller

vars == <<settings, handlers, pc, call, triple, result, again, calls>>

NoCall == [handler |-> "none"]
NoValue == [raised |-> FALSE, unset |-> TRUE]
IdleCall == [pc |-> "idle"]

Init ==
    /\ settings \in Settings
    /\ handlers = [gemini |-> NewHandler, openai |-> NewHandler]
    /\ pc = "idle"
    /\ call = NoCall
    /\ triple = NoValue
    /\ result = NoValue
    /\ again = NoValue
    /\ calls = [c \in 1..NumCalls |-> IdleCall]

\* OpenAIResponseHandler.handle_response on the shared handler.
OpenAIHandleResponse ==
    /\ pc = "idle"
    /\ \E response \in Responses, model \in Models, stream \in BOOLEAN,
          usage_metadata \in UsageMetadatas :
         \E env \in EnvsOf([x \in AllEnvs |->
                      << _extract_result(settings, response, model, stream, FALSE, x),
                         OpenAIResponseHandler_handle_response(
                             settings, response, model, stream, "stop",
                             usage_metadata, x) >>]) :
             /\ call' = [handler |-> "openai", response |-> response, model |-> model,
                         stream |-> stream, finish_reason |-> "stop",
                         usage_metadata |-> usage_metadata, env |-> env]
             /\ triple' = _extract_result(settings, response, model, stream, FALSE, env)
             /\ result' = OpenAIResponseHandler_handle_response(
                              settings, response, model, stream, "stop",
                              usage_metadata, env)
    /\ handlers' = [handlers EXCEPT !.openai = HandlerAfterCall(@)]
    /\ pc' = "returned"
    /\ UNCHANGED <<settings, again, calls>>

\* GeminiResponseHandler.handle_response on the shared handler.
GeminiHandleResponse ==
    /\ pc = "idle"
    /\ \E response \in Responses, model \in Models, stream \in BOOLEAN :
         \E env \in EnvsOf([x \in AllEnvs |->
                      << _extract_result(settings, response, model, stream, TRUE, x),
                         GeminiResponseHandler_handle_response(
                             settings, response, model, stream, x) >>]) :
             /\ call' = [handler |-> "gemini", response |-> response, model |-> model,
                         stream |-> stream, env |-> env]
             /\ triple' = _extract_result(settings, response, model, stream, TRUE, env)
             /\ result' = GeminiResponseHandler_handle_response(
                              settings, response, model, stream, env)
    /\ handlers' = [handlers EXCEPT !.gemini = HandlerAfterCall(@)]
    /\ pc' = "returned"
    /\ UNCHANGED <<settings, again, calls>>

\* The returned native-format response is fed to _extract_result once more, with
\* the same model id and flags.
ReExtract ==
    /\ pc = "returned"
    /\ call.handler = "gemini"
    /\ ~result.raised
    /\ again' = _extract_result(settings, result.value, call.model, call.stream,
                                TRUE, call.env)
    /\ pc' = "reextracted"
    /\ UNCHANGED <<settings, handlers, call, triple, result, calls>>

\* The caller is done with the result.
Return ==
    /\ pc \in {"returned", "reextracted"}
    /\ pc' = "idle"
    /\ call' = NoCall
    /\ triple' = NoValue
    /\ result' = NoValue
    /\ again' = NoValue
    /\ UNCHANGED <<settings, handlers, calls>>

Next == OpenAIHandleResponse \/ GeminiHandleResponse \/ ReExtract \/ Return

Spec == Init /\ [][Next]_vars

(***************************************************************************)
(* Calls in flight at once on the shared handler objects, each caller with *)
(* a response object of its own.                                           *)
(***************************************************************************)
ConcResponses ==
    {[candidates |-> << [content |-> [parts |-> ps, role |-> "model"]] >>]
        : ps \in {<<FragThought, FragText>>, <<FragText, FragCall>>}}

ConcModels == {<<"gemini", "pro">>, <<"gemini", "thinking", "exp">>}

ConcUsage == Some([promptTokenCount |-> 3, totalTokenCount |-> 5])

\* What handle_response of a call's handler class returns.
HandleResponse(c, env) ==
    IF c.handler = "openai"
    THEN OpenAIResponseHandler_handle_response(
             settings, c.response, c.model, c.stream, "stop", ConcUsage, env)
    ELSE GeminiResponseHandler_handle_response(
             settings, c.response, c.model, c.stream, env)

\* What _extract_result returns inside that call.
ExtractOf(c, env) ==
    _extract_result(settings, c.response, c.model, c.stream, c.handler = "gemini", env)

\* Caller c has its arguments ready and enters handle_response.
Begin(c) ==
    /\ calls[c].pc = "idle"
    /\ \E handler \in {"openai", "gemini"}, response \in ConcResponses,
          model \in ConcModels, stream \in BOOLEAN :
         calls' = [calls EXCEPT ![c] =
                      [pc |-> "called", handler |-> handler, response |-> response,
                       model |-> model, stream |-> stream]]
    /\ UNCHANGED <<settings, handlers, pc, call, triple, result, again>>

\* The body of handle_response runs for caller c, on the shared handler object.
Run(c) ==
    /\ calls[c].pc = "called"
    /\ \E env \in EnvsOf([x \in AllEnvs |->
                               <<ExtractOf(calls[c], x), HandleResponse(calls[c], x)>>]) :
         calls' = [calls EXCEPT ![c] =
                      [pc |-> "returned", handler |-> calls[c].handler,
                       response |-> calls[c].response, model |-> calls[c].model,
                       stream |-> calls[c].stream, env |-> env,
                       triple |-> ExtractOf(calls[c], env),
                       result |-> HandleResponse(calls[c], env)]]
    /\ handlers' = [handlers EXCEPT ![calls[c].handler] = HandlerAfterCall(@)]
    /\ UNCHANGED <<settings, pc, call, triple, result, again>>

\* Caller c is done with the result.
Finish(c) ==
    /\ calls[c].pc = "returned"
    /\ calls' = [calls EXCEPT ![c] = IdleCall]
    /\ UNCHANGED <<settings, handlers, pc, call, triple, result, again>>

NextConc == \E c \in 1..NumCalls : Begin(c) \/ Run(c) \/ Finish(c)

\* The responses of these calls carry no inline media: one upload backend is
\* configured.
InitConc == Init /\ settings.UPLOAD_PROVIDER = "smms"

SpecConc == InitConc /\ [][NextConc]_vars

(***************************************************************************)
(* Vocabulary of the properties.                                           *)
(***************************************************************************)
Returned == pc \in {"returned", "reextracted"}

\* The fragment sequence of the call's input response: << >> when there is none.
CallParts ==
    IF HasCandidates(call.response) THEN PartsOf(call.response["candidates"][1])
    ELSE << >>

\* The fragments the thinking detection left in: the scanned subsequence.
CallSkip == IF CallParts # << >> /\ ThinkingDetected(CallParts, call.model) THEN 1 ELSE 0

\* A fragment carries a function-call payload: the key is there with a
\* non-empty payload.
CarriesFunctionCall(part) ==
    "functionCall" \in DOMAIN part /\ part["functionCall"] # EmptyDict

RECURSIVE Concat(_)
Concat(texts) == IF texts = << >> THEN << >> ELSE Head(texts) \o Concat(Tail(texts))

\* The citation section appended for the one grounding metadata of the inputs.
CitationSection ==
    <<"<sources-separator>", "<sources-header>", "\n- [", "Doc", "](", "http://x", ")">>

CitationFires ==
    /\ settings.SHOW_SEARCH_LINK
    /\ call.model[Len(call.model)] = "search"
    /\ HasCandidates(call.response)
    /\ "groundingMetadata" \in DOMAIN call.response["candidates"][1]
    /\ "groundingChunks" \in DOMAIN call.response["candidates"][1]["groundingMetadata"]

(***************************************************************************)
(* C1.  A response with no candidates (the key missing or the list empty), *)
(* or whose first candidate has no content or no parts, makes every entry  *)
(* point return an envelope and never raise: the non-streaming result      *)
(* carries the "no response" placeholder as its content, the streaming     *)
(* result the empty delta.  Stated for calls that pass usage metadata, so  *)
(* that the missing-usage failure of the full message plays no part.       *)
(***************************************************************************)
Placeholder == <<"<no-response>">>

NoContentInput == ~HasCandidates(call.response) \/ CallParts = << >>

C1_NoContentNeverRaises ==
    (/\ Returned
     /\ NoContentInput
     /\ call.handler = "openai" => call.usage_metadata.some)
    => /\ ~result.raised
       /\ IF call.handler = "openai"
          THEN IF call.stream
               THEN result.value["choices"][1]["delta"] = EmptyDict
               ELSE result.value["choices"][1]["message"]["content"] = Placeholder
          ELSE result.value["candidates"][1]["content"]["parts"]
                   = << [text |-> IF call.stream THEN << >> ELSE Placeholder] >>

(***************************************************************************)
(* C2.  When classifying an inline-media fragment fails (malformed base64, *)
(* upload reporting success = False or raising, no upload backend          *)
(* configured), the fragment contributes the empty string, extraction does *)
(* not raise, and every later fragment is still rendered and appended in   *)
(* order.  Stated for non-streaming extraction, which renders every        *)
(* fragment of the scanned subsequence.                                    *)
(***************************************************************************)
IsInlineMedia(part) == "text" \notin DOMAIN part /\ "inlineData" \in DOMAIN part

MediaFails(part) ==
    \/ part["inlineData"]["data"] # <<"Q", "Q", "=", "=">>
    \/ settings.UPLOAD_PROVIDER \notin UploadProviders
    \/ call.env.upload \in {"fail", "raise"}

\* The text each scanned fragment is to contribute when failed media degrades
\* to the empty string.
DegradedText(part) ==
    IF IsInlineMedia(part)
    THEN IF MediaFails(part) THEN << >>
         ELSE <<"<image-open>">> \o call.env.url \o <<"<image-close>">>
    ELSE NormalPartText(settings, part, call.env).text

C2_MediaFailureDegrades ==
    (/\ Returned
     /\ ~call.stream
     /\ \E i \in (CallSkip + 1)..Len(CallParts) :
            IsInlineMedia(CallParts[i]) /\ MediaFails(CallParts[i]))
    => /\ ~triple.raised
       /\ triple.text =
            Concat([i \in 1..(Len(CallParts) - CallSkip) |->
                        DegradedText(CallParts[i + CallSkip])])
              \o (IF CitationFires THEN CitationSection ELSE << >>)

(***************************************************************************)
(* C8.  The full (non-streaming) target-format message always contains a   *)
(* usage block: with usage metadata absent (not passed, or passed without  *)
(* some counter) the block is attached with the missing counters zero and  *)
(* the builder does not fail; the streaming chunk has a usage block only   *)
(* when usage metadata is present.                                         *)
(***************************************************************************)
Counter(usage_metadata, key) ==
    IF usage_metadata.some /\ key \in DOMAIN usage_metadata.val
    THEN usage_metadata.val[key] ELSE 0

C8_UsageAlwaysAttached ==
    (Returned /\ call.handler = "openai" /\ ~triple.raised)
    => /\ ~result.raised
       /\ IF call.stream
          THEN "usage" \in DOMAIN result.value => call.usage_metadata.some
          ELSE /\ "usage" \in DOMAIN result.value
               /\ result.value["usage"] =
                    [prompt_tokens |-> Counter(call.usage_metadata, "promptTokenCount"),
                     completion_tokens |->
                         Counter(call.usage_metadata, "candidatesTokenCount"),
                     total_tokens |-> Counter(call.usage_metadata, "totalTokenCount")]

(***************************************************************************)
(* C9.  Streaming and non-streaming classification use the same key        *)
(* priority: for every single fragment, also one with several recognised   *)
(* keys, the text streaming extraction renders for it equals the text      *)
(* non-streaming extraction renders for the one-fragment sequence, and a   *)
(* fragment with no recognised key renders as the empty string.  Stated    *)
(* for the fragments on which neither extraction raises.                   *)
(***************************************************************************)
RecognisedKeys ==
    {"text", "inlineData", "executableCode", "codeExecution", "executableCodeResult",
     "codeExecutionResult"}

\* The same call made in the other mode.
OtherMode ==
    _extract_result(settings, call.response, call.model, ~call.stream,
                    call.handler = "gemini",
                    [call.env EXCEPT !.upload = IF @ = "unasked" THEN "ok" ELSE @])

C9_SameTextInBothModes ==
    (/\ Returned
     /\ Len(CallParts) = 1
     /\ ~triple.raised
     /\ ~OtherMode.raised)
    => /\ triple.text = OtherMode.text
       /\ (DOMAIN CallParts[1] \cap RecognisedKeys = {} /\ ~CitationFires)
              => triple.text = << >>

(***************************************************************************)
(* C3.  Round trip: when the native-format builder produced an output with *)
(* no tool calls and no thought, running the extractor again on that       *)
(* output (same model id, same flags) yields the text of the first         *)
(* extraction, character for character.                                    *)
(***************************************************************************)
OutParts == result.value["candidates"][1]["content"]["parts"]

PlainOutput ==
    \A i \in 1..Len(OutParts) :
        "functionCall" \notin DOMAIN OutParts[i] /\ "thought" \notin DOMAIN OutParts[i]

RoundTripped == pc = "reextracted" /\ PlainOutput

C3_RoundTripReproducesText ==
    RoundTripped => (~again.raised /\ again.text = triple.text)

\* C3 as amended: the second extraction yields the first text, followed once
\* more by the citation section when citation appending fires for the model id
\* and the candidate (its grounding metadata stays on the builder's output).
C3_RoundTripUpToCitations ==
    RoundTripped =>
        /\ ~again.raised
        /\ again.text = triple.text \o (IF CitationFires THEN CitationSection ELSE << >>)
        /\ again.tool_calls = << >>
        /\ ~again.thought.some

C3_Witness ==
    /\ RoundTripped
    /\ CitationFires
    /\ triple.text = <<"h", "i">> \o CitationSection
    /\ again.text = <<"h", "i">> \o CitationSection \o CitationSection

(***************************************************************************)
(* C4.  In target-format extraction every fragment that carries a          *)
(* function-call payload yields exactly one ToolCall, whose index is the   *)
(* fragment's position p when no thought fragment is detected and its      *)
(* position in the subsequence after the skipped fragment when thinking    *)
(* detection skips the first; fragments without a payload yield none.      *)
(* Positions are 0-based, as the indices are.                              *)
(***************************************************************************)
TargetExtracted ==
    Returned /\ call.handler = "openai" /\ ~triple.raised /\ CallParts # << >>

\* The tool calls extracted for the fragment at 1-based position p.
ToolCallsFor(p) ==
    {k \in 1..Len(triple.tool_calls) : triple.tool_calls[k].index = p - 1 - CallSkip}

C4_EveryFunctionCallYieldsToolCall ==
    TargetExtracted =>
        \A p \in 1..Len(CallParts) :
            Cardinality(ToolCallsFor(p)) = IF CarriesFunctionCall(CallParts[p]) THEN 1 ELSE 0

\* C4 as amended: the statement holds of the fragments of the scanned
\* subsequence; a first fragment that thinking detection skips yields no
\* ToolCall, with or without a function-call payload.
C4_ScannedFunctionCallYieldsToolCall ==
    TargetExtracted =>
        /\ \A p \in 1..Len(CallParts) :
              Cardinality(ToolCallsFor(p)) =
                  IF p > CallSkip /\ CarriesFunctionCall(CallParts[p]) THEN 1 ELSE 0
        /\ \A k \in 1..Len(triple.tool_calls) :
              \E p \in (CallSkip + 1)..Len(CallParts) : k \in ToolCallsFor(p)

C4_Witness ==
    /\ TargetExtracted
    /\ CallSkip = 1
    /\ CarriesFunctionCall(CallParts[1])
    /\ Len(CallParts) = 2
    /\ CarriesFunctionCall(CallParts[2])
    /\ Len(triple.tool_calls) = 1
    /\ triple.tool_calls[1].index = 0
    /\ ~result.raised

(***************************************************************************)
(* C5.  For a fragment sequence whose first fragment is thought-tagged, in *)
(* streaming and in non-streaming extraction: with SHOW_THINKING_PROCESS   *)
(* the thought is the first fragment's text, without it the thought is     *)
(* unset; either way the first fragment is left out of the text and no     *)
(* later fragment is taken as thought: the text is made of the renderings  *)
(* of the fragments after the first (the second alone when streaming),     *)
(* followed by the citation section when that fires.  Stated of the        *)
(* extractions that return.                                                *)
(***************************************************************************)
ThoughtTaggedFirst ==
    /\ Returned
    /\ ~triple.raised
    /\ CallParts # << >>
    /\ "thought" \in DOMAIN CallParts[1]
    /\ CallParts[1]["thought"]

\* The renderings of the fragments after the first, in the mode of the call.
RestRendered ==
    IF call.stream
    THEN IF Len(CallParts) >= 2
         THEN StreamPartText(settings, CallParts[2], call.env).text ELSE << >>
    ELSE Concat([i \in 1..(Len(CallParts) - 1) |->
                    NormalPartText(settings, CallParts[i + 1], call.env).text])

C5_ThoughtIsFirstFragmentOnly ==
    ThoughtTaggedFirst =>
        /\ triple.thought =
             IF settings.SHOW_THINKING_PROCESS
             THEN Some(IF "text" \in DOMAIN CallParts[1] THEN CallParts[1]["text"]
                       ELSE << >>)
             ELSE None
        /\ triple.text = RestRendered \o (IF CitationFires THEN CitationSection ELSE << >>)

C5_Witness ==
    /\ ThoughtTaggedFirst
    /\ call.stream
    /\ settings.SHOW_THINKING_PROCESS
    /\ CallParts = <<FragThought, FragThought>>
    /\ triple.thought = Some(<<"r">>)
    /\ triple.text = <<"r">>

(***************************************************************************)
(* C6.  The streaming target-format chunk has delta = {} exactly when the  *)
(* extracted text and tool calls are both empty; otherwise delta has role  *)
(* "assistant" and content, and a tool_calls field only when the tool-call *)
(* list is non-empty.  The full message always has a tool_calls field,     *)
(* the empty list when no tool call was extracted.                         *)
(***************************************************************************)
TargetReturned == Returned /\ call.handler = "openai" /\ ~result.raised

C6_DeltaAndToolCallsField ==
    TargetReturned =>
        IF call.stream
        THEN LET delta == result.value["choices"][1]["delta"]
             IN  /\ (delta = EmptyDict)
                      <=> (triple.text = << >> /\ triple.tool_calls = << >>)
                 /\ delta # EmptyDict =>
                      /\ {"role", "content"} \subseteq DOMAIN delta
                      /\ DOMAIN delta \subseteq {"role", "content", "tool_calls"}
                      /\ delta["role"] = "assistant"
                      /\ delta["content"] = triple.text
                      /\ ("tool_calls" \in DOMAIN delta) <=> (triple.tool_calls # << >>)
                      /\ "tool_calls" \in DOMAIN delta
                            => delta["tool_calls"] = triple.tool_calls
        ELSE LET message == result.value["choices"][1]["message"]
             IN  /\ "tool_calls" \in DOMAIN message
                 /\ message["tool_calls"] = triple.tool_calls

C6_Witness ==
    /\ TargetReturned
    /\ call.stream
    /\ triple.text = <<"h", "i">>
    /\ triple.tool_calls = << >>
    /\ DOMAIN result.value["choices"][1]["delta"] = {"role", "content"}

(***************************************************************************)
(* C10.  The native-format builders replace candidates[0].content by       *)
(* {parts, role: "model"}: if any tool call was extracted, parts is the    *)
(* list of the original function-call fragments, unchanged, and the text   *)
(* is dropped; else, in full mode only, if a thought was extracted, parts  *)
(* is [{text: thought, thought: true}, {text: text}]; else parts is        *)
(* [{text: text}].  The streaming builder never emits a thought part.      *)
(***************************************************************************)
NativeReturned == Returned /\ call.handler = "gemini" /\ ~result.raised

\* The function-call fragments of a fragment sequence, in order.
FunctionCallFragments(parts) == SelectSeq(parts, CarriesFunctionCall)

ExpectedParts(function_calls) ==
    IF triple.tool_calls # << >> THEN function_calls
    ELSE IF ~call.stream /\ triple.thought.some
         THEN << [text |-> triple.thought.val, thought |-> TRUE], [text |-> triple.text] >>
    ELSE << [text |-> triple.text] >>

C10_PartsByPriority ==
    NativeReturned =>
        result.value["candidates"][1]["content"]
            = [parts |-> ExpectedParts(FunctionCallFragments(CallParts)), role |-> "model"]

\* C10 as amended: the function-call fragments are those of the scanned
\* subsequence; a first fragment skipped by thinking detection is not among
\* them, with or without a function-call payload.
C10_PartsByPriorityScanned ==
    NativeReturned =>
        result.value["candidates"][1]["content"]
            = [parts |-> ExpectedParts(FunctionCallFragments(Slice(CallParts, CallSkip))),
               role |-> "model"]

C10_Witness ==
    /\ NativeReturned
    /\ ~call.stream
    /\ CallSkip = 1
    /\ CarriesFunctionCall(CallParts[1])
    /\ triple.tool_calls = << >>
    /\ triple.thought = Some(<< >>)
    /\ OutParts = << [text |-> << >>, thought |-> TRUE], [text |-> <<"h", "i">>] >>

(***************************************************************************)
(* C7.  Translation calls carry no cross-call state: calls made on one     *)
(* shared handler, each on its own response object, in any interleaving,   *)
(* each return the text, the tool-call names, arguments and indices and    *)
(* the thought they return when run alone, and no call writes the handler  *)
(* fields thinking_first and thinking_status.                              *)
(***************************************************************************)
\* A tool call without its random id.
WithoutId(tool_call) ==
    IF "id" \in DOMAIN tool_call
    THEN [index |-> tool_call.index, function |-> tool_call.function]
    ELSE tool_call

WithoutIds(r) ==
    [text |-> r.text,
     tool_calls |-> [k \in 1..Len(r.tool_calls) |-> WithoutId(r.tool_calls[k])],
     thought |-> r.thought]

\* The call of caller c run alone, on fresh handlers.
Alone(c) == ExtractOf(calls[c], [upload |-> "ok", url |-> <<"u">>, rnd |-> "r1"])

====
